---------------------------- MODULE Spec2Model ----------------------------
(***************************************************************************)
(* A model of wagtail_pdf_view/mixins.py: the class-definition-time route  *)
(* compilation of MultipleViewPageMixin, its per-instance url attributes,  *)
(* its preview dispatcher, and the template / provider handling of         *)
(* PdfViewPageMixin.                                                       *)
(*                                                                         *)
(* Python values are represented as follows.                               *)
(*   - a str that the code inspects character by character (a url, a       *)
(*     route pattern, a template path) is a sequence of one-character      *)
(*     strings; the Python value None is the one-element sequence None.    *)
(*   - identifiers (route keys, route names, method names) are strings.    *)
(*   - an attribute that may be absent is a sequence of length 0 (absent)  *)
(*     or 1 (present, holding the value).                                  *)
(***************************************************************************)
EXTENDS Integers, Sequences, FiniteSets, TLC

VARIABLES
    classes,        \* the class table: every class object created so far
    lastDef,        \* what the most recent class statement did
    providerAttr,   \* per class: the PDF_VIEW_PROVIDER set in its own body
    env,            \* what the process can import / what settings say
    module,         \* the module-level state of mixins.py after import
    lastServe,      \* the most recent serve_pdf call
    instances,      \* page instances constructed so far
    lastInit,       \* the most recent run of __init__
    lastPreview,    \* the most recent serve_preview call
    lastTemplate,   \* the most recent get_template call
    page,           \* concurrent runs: the page type and url being initialised
    attrs,          \* concurrent runs: instance -> its url_<key> attributes
    runs            \* concurrent runs: run -> its position in __init__

vars == <<classes, lastDef, providerAttr, env, module, lastServe, instances,
          lastInit, lastPreview, lastTemplate, page, attrs, runs>>

-----------------------------------------------------------------------------
(* Python values *)

None == <<"None">>

Absent == << >>

Some(x) == <<x>>

\* Python truthiness of a value that is a str or None (mixins.py:96, 125, 130, 297)
Truthy(v) == v # None /\ v # << >>

-----------------------------------------------------------------------------
(* Bounds *)

MaxClasses == 2     \* class statements executed after the module is imported

MaxConfig == 2      \* entries in a redeclared ROUTE_CONFIG

MaxInstances == 1   \* page instances constructed

MaxSegments == 4    \* path segments a template name is made of

MaxRuns == 2        \* concurrent runs of __init__

-----------------------------------------------------------------------------
(* ROUTE_CONFIG entries: (key, value, *args) *)

Keys == {"pdf", "html", "tex"}

Entry(k, v, a) == [key |-> k, value |-> v, args |-> a]

PatRoot == <<"^", "$">>

PatPdf == <<"^", "p", "d", "f", "/", "$">>

PatTex == <<"^", "t", "e", "x", "/", "$">>

\* the entries a page model's ROUTE_CONFIG is drawn from
Entries ==
    { Entry("pdf", PatPdf, << >>),
      Entry("html", PatRoot, << >>),
      Entry("html", None, << >>),
      Entry("html", << >>, << >>),
      Entry("tex", PatTex, <<"latex">>) }

RECURSIVE SeqsUpTo(_, _)
SeqsUpTo(S, n) ==
    IF n = 0 THEN { << >> }
    ELSE LET shorter == SeqsUpTo(S, n - 1)
         IN  shorter \cup { Append(s, e) : s \in shorter, e \in S }

Configs == SeqsUpTo(Entries, MaxConfig)

-----------------------------------------------------------------------------
(* The class table *)

\* a method object: the route metadata the framework reads from it (absent on
\* a plain function) and the class whose body defined the wrapped function
Method(r, o) == [route |-> r, origin |-> o]

\* class PdfViewPageMixin(MultipleViewPageMixin): it is not a Page, declares
\* the default ROUTE_CONFIG and defines serve_html and serve_pdf
PdfViewPageMixin ==
    [ parent |-> 0,
      isPage |-> FALSE,
      ROUTE_CONFIG |-> Some(<< Entry("pdf", PatRoot, << >>),
                               Entry("html", None, << >>) >>),
      DEFAULT_PREVIEW_MODES |-> Absent,
      serve |-> [k \in Keys |->
                    IF k \in {"pdf", "html"} THEN Some(Method(Absent, 1))
                    ELSE Absent] ]

\* attribute lookup along the bases of class c (getattr(cls, name))
RECURSIVE GetServe(_, _, _)
GetServe(tbl, c, k) ==
    IF c = 0 THEN Absent
    ELSE IF tbl[c].serve[k] # Absent THEN tbl[c].serve[k]
    ELSE GetServe(tbl, tbl[c].parent, k)

RECURSIVE GetRouteConfig(_, _)
GetRouteConfig(tbl, c) ==
    IF c = 0 THEN Absent
    ELSE IF tbl[c].ROUTE_CONFIG # Absent THEN tbl[c].ROUTE_CONFIG
    ELSE GetRouteConfig(tbl, tbl[c].parent)

RECURSIVE GetPreviewModes(_, _)
GetPreviewModes(tbl, c) ==
    IF c = 0 THEN Absent
    ELSE IF tbl[c].DEFAULT_PREVIEW_MODES # Absent THEN tbl[c].DEFAULT_PREVIEW_MODES
    ELSE GetPreviewModes(tbl, tbl[c].parent)

\* MultipleViewPageMixin.get_preview_name: str(key) + " preview"
get_preview_name(key) == <<key, " preview">>

\* utils.route_function(fn, pattern, name): a new wrapper around fn that
\* carries the route (pattern, name); fn itself is left unchanged
route_function(fn, pattern, name) ==
    Method(Some([pattern |-> pattern, name |-> name]), fn.origin)

\* the body of the for loop of __init_subclass__, from entry i on.
\* The result is the class table, or ok = FALSE when getattr raised.
RECURSIVE InitSubclassLoop(_, _, _, _)
InitSubclassLoop(tbl, c, cfg, i) ==
    IF i > Len(cfg) THEN [ok |-> TRUE, tbl |-> tbl]
    ELSE
      LET key   == cfg[i].key
          value == cfg[i].value
          args  == IF cfg[i].args = << >> THEN <<key>> ELSE cfg[i].args
      IN
      IF ~Truthy(value) THEN InitSubclassLoop(tbl, c, cfg, i + 1)
      ELSE
        LET modes == Some(Append(tbl[c].DEFAULT_PREVIEW_MODES[1],
                                 <<key, get_preview_name(key)>>))
            fn    == GetServe(tbl, c, key)
        IN
        IF fn = Absent
        THEN [ok |-> FALSE,
              tbl |-> [tbl EXCEPT ![c].DEFAULT_PREVIEW_MODES = modes]]
        ELSE InitSubclassLoop(
               [tbl EXCEPT ![c].DEFAULT_PREVIEW_MODES = modes,
                           ![c].serve[key] =
                               Some(route_function(fn[1], value, args[1]))],
               c, cfg, i + 1)

\* a slip: the preview modes are appended to the list found by attribute
\* lookup (the parent's) instead of a fresh list of the class
InitSubclassSharedList(tbl, c) ==
    IF ~tbl[c].isPage THEN [ok |-> TRUE, tbl |-> tbl]
    ELSE
      LET p == tbl[c].parent
          inherited == GetPreviewModes(tbl, p)
          start == IF inherited = Absent THEN Some(<< >>) ELSE inherited
          r == InitSubclassLoop(
                 [tbl EXCEPT ![c].DEFAULT_PREVIEW_MODES = start],
                 c, GetRouteConfig(tbl, c)[1], 1)
      IN  IF tbl[p].isPage
          THEN [r EXCEPT !.tbl[p].DEFAULT_PREVIEW_MODES =
                             r.tbl[c].DEFAULT_PREVIEW_MODES]
          ELSE r

\* a slip: an enabled key without a serve method is skipped
RECURSIVE InitSubclassSkipLoop(_, _, _, _)
InitSubclassSkipLoop(tbl, c, cfg, i) ==
    IF i > Len(cfg) THEN [ok |-> TRUE, tbl |-> tbl]
    ELSE
      LET key   == cfg[i].key
          value == cfg[i].value
          args  == IF cfg[i].args = << >> THEN <<key>> ELSE cfg[i].args
          fn    == GetServe(tbl, c, key)
      IN
      IF ~Truthy(value) THEN InitSubclassSkipLoop(tbl, c, cfg, i + 1)
      ELSE
        LET modes == Some(Append(tbl[c].DEFAULT_PREVIEW_MODES[1],
                                 <<key, get_preview_name(key)>>))
        IN
        InitSubclassSkipLoop(
           [tbl EXCEPT ![c].DEFAULT_PREVIEW_MODES = modes,
                       ![c].serve[key] =
                          IF fn = Absent THEN Absent
                          ELSE Some(route_function(fn[1], value, args[1]))],
           c, cfg, i + 1)

InitSubclassSkipMissing(tbl, c) ==
    IF ~tbl[c].isPage THEN [ok |-> TRUE, tbl |-> tbl]
    ELSE InitSubclassSkipLoop(
           [tbl EXCEPT ![c].DEFAULT_PREVIEW_MODES = Some(<< >>)],
           c, GetRouteConfig(tbl, c)[1], 1)

\* MultipleViewPageMixin.__init_subclass__(cls), cls = tbl[c]
InitSubclass(tbl, c) ==
    IF ~tbl[c].isPage THEN [ok |-> TRUE, tbl |-> tbl]
    ELSE InitSubclassLoop(
           [tbl EXCEPT ![c].DEFAULT_PREVIEW_MODES = Some(<< >>)],
           c, GetRouteConfig(tbl, c)[1], 1)

\* the class object a class statement builds before __init_subclass__ runs
NewClass(tbl, p, pageBase, cfg, body) ==
    [ parent |-> p,
      isPage |-> tbl[p].isPage \/ pageBase,
      ROUTE_CONFIG |-> cfg,
      DEFAULT_PREVIEW_MODES |-> Absent,
      serve |-> [k \in Keys |->
                    IF k \in body THEN Some(Method(Absent, Len(tbl) + 1))
                    ELSE Absent] ]

\* the keys for which serve_<key> is found on class c
Reachable(tbl, c) == { k \in Keys : GetServe(tbl, c, k) # Absent }

NoDef == [status |-> "none", cls |-> 0, isPage |-> FALSE,
          config |-> << >>, reachable |-> {}]

\* class C(P [, Page]):
\*     [ROUTE_CONFIG = cfg]  [PDF_VIEW_PROVIDER = prov]  [def serve_<k> ... for k in body]
DefineClass(p, pageBase, cfg, body, prov) ==
    /\ Len(classes) < MaxClasses + 1
    /\ LET c   == Len(classes) + 1
           tbl == Append(classes, NewClass(classes, p, pageBase, cfg, body))
           r   == InitSubclass(tbl, c)
           att == [cls |-> c, isPage |-> tbl[c].isPage,
                   config |-> GetRouteConfig(tbl, c)[1],
                   reachable |-> Reachable(tbl, c)]
       IN  IF r.ok
           THEN /\ classes' = r.tbl
                /\ lastDef' = [att EXCEPT !.cls = c] @@ [status |-> "defined"]
                /\ providerAttr' = Append(providerAttr, prov)
           ELSE /\ classes' = classes
                /\ lastDef' = [att EXCEPT !.cls = 0] @@ [status |-> "AttributeError"]
                /\ providerAttr' = providerAttr
    /\ UNCHANGED <<env, module, lastServe, instances, lastInit, lastPreview,
                   lastTemplate, page, attrs, runs>>

-----------------------------------------------------------------------------
(* Values of the variables a specification does not use *)

\* a process in which neither renderer is installed and settings name none
NoEnv == [weasy |-> FALSE, tex |-> FALSE, settings |-> Absent]

NoModule == [imported |-> FALSE, DEFAULT_PDF_VIEW_PROVIDER |-> None,
             DEFAULT_PDF_ADMIN_VIEW_PROVIDER |-> None, warnings |-> 0]

NoServe == [cls |-> 0, provider |-> None, outcome |-> "none", cc |-> {}]

NoPage == [url |-> None, shared |-> FALSE]

-----------------------------------------------------------------------------
(* Module import and the PDF view provider *)

\* a reference to a class is a one-element sequence holding its name
WagtailWeasyView == <<"WagtailWeasyView">>

WagtailWeasyAdminView == <<"WagtailWeasyAdminView">>

WagtailTexView == <<"WagtailTexView">>

WagtailTexAdminView == <<"WagtailTexAdminView">>

CustomView == <<"CustomView">>

\* what settings.DEFAULT_PDF_VIEW_PROVIDER may be: not set, None, a provider
SettingsValues == { Absent, Some(None), Some(CustomView) }

Envs == [weasy : BOOLEAN, tex : BOOLEAN, settings : SettingsValues]

\* the try / except ImportError cascade at module level
ModuleAfterImport(e) ==
    IF e.weasy
    THEN [imported |-> TRUE,
          DEFAULT_PDF_VIEW_PROVIDER |-> WagtailWeasyView,
          DEFAULT_PDF_ADMIN_VIEW_PROVIDER |-> WagtailWeasyAdminView,
          warnings |-> 0]
    ELSE IF e.tex
    THEN [imported |-> TRUE,
          DEFAULT_PDF_VIEW_PROVIDER |-> WagtailTexView,
          DEFAULT_PDF_ADMIN_VIEW_PROVIDER |-> WagtailTexAdminView,
          warnings |-> 0]
    ELSE [imported |-> TRUE,
          DEFAULT_PDF_VIEW_PROVIDER |-> None,
          DEFAULT_PDF_ADMIN_VIEW_PROVIDER |-> None,
          warnings |-> 1]

\* PDF_VIEW_PROVIDER = getattr(settings, "DEFAULT_PDF_VIEW_PROVIDER", DEFAULT_PDF_VIEW_PROVIDER)
ClassProviderDefault(e, m) ==
    IF e.settings # Absent THEN e.settings[1] ELSE m.DEFAULT_PDF_VIEW_PROVIDER

\* import wagtail_pdf_view.mixins: runs the module body once, which also
\* creates the class PdfViewPageMixin
ImportModule ==
    /\ ~module.imported
    /\ module' = ModuleAfterImport(env)
    /\ classes' = <<PdfViewPageMixin>>
    /\ providerAttr' = <<Some(ClassProviderDefault(env, ModuleAfterImport(env)))>>
    /\ UNCHANGED <<lastDef, env, lastServe, instances, lastInit, lastPreview,
                   lastTemplate, page, attrs, runs>>

\* self.PDF_VIEW_PROVIDER: attribute lookup along the bases of class c
RECURSIVE GetProvider(_, _, _)
GetProvider(tbl, prov, c) ==
    IF prov[c] # Absent THEN prov[c][1]
    ELSE GetProvider(tbl, prov, tbl[c].parent)

\* what the provider's view does with the request is the provider's business
ViewOutcomes == { "response", "ViewError" }

ViewCacheControls == { {}, {"public"} }

\* django.utils.cache.add_never_cache_headers, on the Cache-Control directives
add_never_cache_headers(cc) == cc \cup {"no-cache", "no-store", "must-revalidate"}

\* a slip: a missing provider is papered over with an empty response
serve_pdf_swallow(provider, viewOutcome, viewCc) ==
    IF provider = None
    THEN [outcome |-> "response", cc |-> add_never_cache_headers({})]
    ELSE IF viewOutcome = "ViewError"
    THEN [outcome |-> "ViewError", cc |-> {}]
    ELSE [outcome |-> "response", cc |-> add_never_cache_headers(viewCc)]

\* PdfViewPageMixin.serve_pdf with get_pdf_view inlined: None has no as_view
serve_pdf(provider, viewOutcome, viewCc) ==
    IF provider = None
    THEN [outcome |-> "AttributeError", cc |-> {}]
    ELSE IF viewOutcome = "ViewError"
    THEN [outcome |-> "ViewError", cc |-> {}]
    ELSE [outcome |-> "response", cc |-> add_never_cache_headers(viewCc)]

\* a request reaches serve_pdf of an instance of page type c
ServePdf(c, viewOutcome, viewCc) ==
    /\ module.imported
    /\ c \in 1..Len(classes) /\ classes[c].isPage
    /\ GetServe(classes, c, "pdf") # Absent
    /\ LET provider == GetProvider(classes, providerAttr, c)
           r == serve_pdf(provider, viewOutcome, viewCc)
       IN  lastServe' = [cls |-> c, provider |-> provider,
                         outcome |-> r.outcome, cc |-> r.cc]
    /\ UNCHANGED <<classes, lastDef, providerAttr, env, module, instances,
                   lastInit, lastPreview, lastTemplate, page, attrs, runs>>

-----------------------------------------------------------------------------
(* Instance construction: the url_<key> attributes *)

\* what Page.url may be: None (the page is not routable), empty, or a path
Urls == { None, << >>, <<"/">>, <<"/", "a">>, <<"/", "a", "/">> }

\* a url_<key> value that was set before the loop of __init__ looks at it
PresetUrl == <<"/", "x">>

NoAttrs == [k \in Keys |-> Absent]

\* str.endswith('/')
EndsWithSlash(u) == Len(u) > 0 /\ u[Len(u)] = "/"

\* the sub-path a route pattern reverses to: the pattern without its anchors
StripAnchors(pat) ==
    LET a == IF Len(pat) > 0 /\ pat[1] = "^" THEN SubSeq(pat, 2, Len(pat)) ELSE pat
    IN  IF Len(a) > 0 /\ a[Len(a)] = "$" THEN SubSeq(a, 1, Len(a) - 1) ELSE a

\* the routes found on class c: those carried by its serve_<key> attributes
RoutesOf(tbl, c) ==
    { GetServe(tbl, c, k)[1].route[1] :
        k \in { j \in Keys : /\ GetServe(tbl, c, j) # Absent
                             /\ GetServe(tbl, c, j)[1].route # Absent } }

\* self.reverse_subpage(name): Absent stands for NoReverseMatch
reverse_subpage(tbl, c, name) ==
    LET rs == { r \in RoutesOf(tbl, c) : r.name = name }
    IN  IF rs = {} THEN Absent
        ELSE Some(StripAnchors((CHOOSE r \in rs : TRUE).pattern))

\* lines 129-133 for one entry: the value of url_<key>, or the exception
UrlFor(tbl, c, url, name) ==
    LET base == IF Truthy(url) /\ ~EndsWithSlash(url) THEN Append(url, "/") ELSE url
        sub  == reverse_subpage(tbl, c, name)
    IN  IF sub = Absent THEN [outcome |-> "NoReverseMatch", value |-> << >>]
        ELSE IF base = None THEN [outcome |-> "TypeError", value |-> << >>]
        ELSE [outcome |-> "ok", value |-> base \o sub[1]]

\* a slip: the attribute is assigned whether or not it is already there
RECURSIVE AssignUrlsOverwriteLoop(_, _, _, _, _, _)
AssignUrlsOverwriteLoop(tbl, c, url, cfg, i, at) ==
    IF i > Len(cfg) THEN [outcome |-> "ok", attrs |-> at]
    ELSE
      LET key == cfg[i].key
          route_args == IF cfg[i].args = << >> THEN <<key>> ELSE cfg[i].args
      IN
      IF Truthy(cfg[i].value)
      THEN LET r == UrlFor(tbl, c, url, route_args[1])
           IN  IF r.outcome # "ok" THEN [outcome |-> r.outcome, attrs |-> at]
               ELSE AssignUrlsOverwriteLoop(tbl, c, url, cfg, i + 1,
                                   [at EXCEPT ![key] = Some(r.value)])
      ELSE AssignUrlsOverwriteLoop(tbl, c, url, cfg, i + 1, at)

AssignUrlsOverwrite(tbl, c, url, at) ==
    AssignUrlsOverwriteLoop(tbl, c, url, GetRouteConfig(tbl, c)[1], 1, at)

\* the for loop of __init__ from entry i on, over the url_<key> attributes at
RECURSIVE AssignUrlsLoop(_, _, _, _, _, _)
AssignUrlsLoop(tbl, c, url, cfg, i, at) ==
    IF i > Len(cfg) THEN [outcome |-> "ok", attrs |-> at]
    ELSE
      LET key == cfg[i].key
          route_args == IF cfg[i].args = << >> THEN <<key>> ELSE cfg[i].args
      IN
      IF Truthy(cfg[i].value) /\ at[key] = Absent
      THEN LET r == UrlFor(tbl, c, url, route_args[1])
           IN  IF r.outcome # "ok" THEN [outcome |-> r.outcome, attrs |-> at]
               ELSE AssignUrlsLoop(tbl, c, url, cfg, i + 1,
                                   [at EXCEPT ![key] = Some(r.value)])
      ELSE AssignUrlsLoop(tbl, c, url, cfg, i + 1, at)

\* MultipleViewPageMixin.__init__ after super().__init__: self is an instance
\* of class c with self.url = url and the url_<key> attributes at
AssignUrls(tbl, c, url, at) ==
    AssignUrlsLoop(tbl, c, url, GetRouteConfig(tbl, c)[1], 1, at)

NoInit == [ran |-> FALSE, rerun |-> FALSE, cls |-> 0, url |-> None,
           pre |-> NoAttrs, post |-> NoAttrs, outcome |-> "none"]

\* obj = C(...): super().__init__ leaves the url_<key> attributes of preset
\* in place, then the loop runs; an exception leaves no instance behind
Construct(c, url, preset) ==
    /\ Len(instances) < MaxInstances
    /\ c \in 1..Len(classes) /\ classes[c].isPage
    /\ LET pre == [k \in Keys |-> IF k \in preset THEN Some(PresetUrl) ELSE Absent]
           r   == AssignUrls(classes, c, url, pre)
       IN  /\ lastInit' = [ran |-> TRUE, rerun |-> FALSE, cls |-> c, url |-> url,
                           pre |-> pre, post |-> r.attrs, outcome |-> r.outcome]
           /\ instances' = IF r.outcome = "ok"
                           THEN Append(instances,
                                       [cls |-> c, url |-> url, attrs |-> r.attrs])
                           ELSE instances
    /\ UNCHANGED <<classes, lastDef, providerAttr, env, module, lastServe,
                   lastPreview, lastTemplate, page, attrs, runs>>

\* __init__ runs again on the existing instance i
ReInit(i) ==
    /\ i \in 1..Len(instances)
    /\ LET o == instances[i]
           r == AssignUrls(classes, o.cls, o.url, o.attrs)
       IN  /\ lastInit' = [ran |-> TRUE, rerun |-> TRUE, cls |-> o.cls,
                           url |-> o.url, pre |-> o.attrs, post |-> r.attrs,
                           outcome |-> r.outcome]
           /\ instances' = [instances EXCEPT ![i].attrs = r.attrs]
    /\ UNCHANGED <<classes, lastDef, providerAttr, env, module, lastServe,
                   lastPreview, lastTemplate, page, attrs, runs>>

-----------------------------------------------------------------------------
(* The preview dispatcher *)

\* the mode names a preview request may carry
ModeNames == Keys \cup {"default"}

\* what a serve method does with the request is its own business: it returns
\* a response with some Cache-Control directives, or raises
HandlerOutcomes == { "response", "HandlerError" }

HandlerCacheControls == { {}, {"public"}, {"private"} }

\* django.utils.cache.patch_cache_control(response, private=True)
patch_cache_control_private(cc) == (cc \ {"public"}) \cup {"private"}

\* mode_names = [mode[0] for mode in self.preview_modes]
PreviewModeNames(tbl, c) ==
    LET m == GetPreviewModes(tbl, c)[1] IN { m[i][1] : i \in 1..Len(m) }

\* the call of the chosen serve method: what it saw on the request, and what
\* serve_preview makes of its outcome
InvokeAndPatch(handler, request, hOutcome, hCc) ==
    [ invoked |-> << [handler |-> handler, sawPreview |-> request.is_preview] >>,
      request |-> request,
      kind    |-> hOutcome,
      mode    |-> "",
      cc      |-> IF hOutcome = "response" THEN patch_cache_control_private(hCc)
                  ELSE {} ]

\* a slip: the mode is looked up among the ROUTE_CONFIG keys, enabled or not
serve_preview_any_key(tbl, c, mode_name, hasPreview, hOutcome, hCc) ==
    LET cfg == GetRouteConfig(tbl, c)[1]
        request == [is_preview |-> TRUE]
    IN  IF mode_name \in { cfg[i].key : i \in 1..Len(cfg) }
        THEN IF mode_name \in hasPreview
             THEN InvokeAndPatch(<<"serve_preview", mode_name>>, request, hOutcome, hCc)
             ELSE IF GetServe(tbl, c, mode_name) = Absent
             THEN [invoked |-> << >>, request |-> request,
                   kind |-> "AttributeError", mode |-> "", cc |-> {}]
             ELSE InvokeAndPatch(<<"serve", mode_name>>, request, hOutcome, hCc)
        ELSE [invoked |-> << >>, request |-> request,
              kind |-> "default", mode |-> mode_name, cc |-> {}]

\* a slip: the request is marked as a preview only after the serve method ran
serve_preview_mark_late(tbl, c, mode_name, hasPreview, hOutcome, hCc) ==
    LET before == [is_preview |-> FALSE]
        after  == [is_preview |-> TRUE]
    IN  IF mode_name \in PreviewModeNames(tbl, c)
        THEN [ InvokeAndPatch(IF mode_name \in hasPreview
                              THEN <<"serve_preview", mode_name>>
                              ELSE <<"serve", mode_name>>,
                              before, hOutcome, hCc)
               EXCEPT !.request = after ]
        ELSE [invoked |-> << >>, request |-> after,
              kind |-> "default", mode |-> mode_name, cc |-> {}]

\* MultipleViewPageMixin.serve_preview(self, request, mode_name) on an instance
\* of class c that has serve_preview_<k> for the keys k of hasPreview
serve_preview(tbl, c, mode_name, hasPreview, hOutcome, hCc) ==
    LET mode_names == PreviewModeNames(tbl, c)
        request == [is_preview |-> TRUE]
    IN  IF mode_name \in mode_names
        THEN IF mode_name \in hasPreview
             THEN InvokeAndPatch(<<"serve_preview", mode_name>>, request, hOutcome, hCc)
             ELSE IF GetServe(tbl, c, mode_name) = Absent
             THEN [invoked |-> << >>, request |-> request,
                   kind |-> "AttributeError", mode |-> "", cc |-> {}]
             ELSE InvokeAndPatch(<<"serve", mode_name>>, request, hOutcome, hCc)
        ELSE \* return super().serve_preview(request, mode_name)
             [invoked |-> << >>, request |-> request,
              kind |-> "default", mode |-> mode_name, cc |-> {}]

NoPreview == [ran |-> FALSE, cls |-> 0, mode_name |-> "", hasPreview |-> {},
              hOutcome |-> "none", hCc |-> {},
              result |-> [invoked |-> << >>, request |-> [is_preview |-> FALSE],
                          kind |-> "none", mode |-> "", cc |-> {}]]

\* a preview request for mode_name reaches an instance of page type c
ServePreview(c, mode_name, hasPreview, hOutcome, hCc) ==
    /\ c \in 1..Len(classes) /\ classes[c].isPage
    /\ lastPreview' =
          [ran |-> TRUE, cls |-> c, mode_name |-> mode_name,
           hasPreview |-> hasPreview, hOutcome |-> hOutcome, hCc |-> hCc,
           result |-> serve_preview(classes, c, mode_name, hasPreview, hOutcome, hCc)]
    /\ UNCHANGED <<classes, lastDef, providerAttr, env, module, lastServe,
                   instances, lastInit, lastTemplate, page, attrs, runs>>

-----------------------------------------------------------------------------
(* The template name *)

DotHtml == <<".", "h", "t", "m", "l">>

\* the pieces template paths are made of
Segments == { <<"a">>, <<"/">>, DotHtml, <<".", "h", "t", "m">> }

RECURSIVE Flatten(_)
Flatten(ss) == IF ss = << >> THEN << >> ELSE Head(ss) \o Flatten(Tail(ss))

TemplateNames == { Flatten(ss) : ss \in SeqsUpTo(Segments, MaxSegments) }

\* the values of the extension argument: None, '', 'tex', 'html'
Extensions == { None, << >>, <<"t", "e", "x">>, <<"h", "t", "m", "l">> }

IsPrefix(p, t) == Len(p) <= Len(t) /\ SubSeq(t, 1, Len(p)) = p

\* str.replace(old, new): every non-overlapping occurrence, left to right
RECURSIVE Replace(_, _, _)
Replace(t, old, new) ==
    IF Len(t) < Len(old) THEN t
    ELSE IF IsPrefix(old, t)
    THEN new \o Replace(SubSeq(t, Len(old) + 1, Len(t)), old, new)
    ELSE <<Head(t)>> \o Replace(Tail(t), old, new)

\* PdfModelMixin.get_template: the attribute named by TEMPLATE_ATTRIBUTE, or
\* by ADMIN_TEMPLATE_ATTRIBUTE for an admin view provider; Absent stands for
\* the AttributeError
PdfModelMixin_get_template(self, adminProvider) ==
    IF adminProvider THEN self.admin_template_name ELSE self.template_name

\* PdfViewPageMixin.get_template(self, request, extension): super() is called
\* with the request alone, so without a view provider
get_template(self, extension) ==
    LET template_name == PdfModelMixin_get_template(self, FALSE)
    IN  IF template_name = Absent
        THEN [kind |-> "AttributeError", value |-> << >>]
        ELSE IF Truthy(extension)
        THEN [kind |-> "ok",
              value |-> Replace(template_name[1], DotHtml, <<".">> \o extension)]
        ELSE [kind |-> "ok", value |-> template_name[1]]

NoTemplate == [ran |-> FALSE, template_name |-> Absent, extension |-> None,
               result |-> [kind |-> "none", value |-> << >>]]

\* get_template is called on a page whose template_name attribute is tn
GetTemplate(tn, extension) ==
    /\ lastTemplate' =
          [ran |-> TRUE, template_name |-> tn, extension |-> extension,
           result |-> get_template([template_name |-> tn,
                                    admin_template_name |-> Some(<<"a">> \o DotHtml)],
                                   extension)]
    /\ UNCHANGED <<classes, lastDef, providerAttr, env, module, lastServe,
                   instances, lastInit, lastPreview, page, attrs, runs>>

-----------------------------------------------------------------------------
(* Concurrent runs of __init__ *)

Runs == 1..MaxRuns

\* the instance run r initialises: one shared instance, or one per run
InstanceOf(r) == IF page.shared THEN 1 ELSE r

PageClass == 2

RunStart(r) == [i |-> 1, pc |-> "check", value |-> << >>]

\* line 119-125: take the next entry and test `value and not hasattr(...)`
RunCheck(r) ==
    LET cfg == GetRouteConfig(classes, PageClass)[1]
        i   == runs[r].i
    IN  /\ runs[r].pc = "check"
        /\ runs' = [runs EXCEPT ![r] =
              IF i > Len(cfg) THEN [@ EXCEPT !.pc = "done"]
              ELSE IF Truthy(cfg[i].value) /\ attrs[InstanceOf(r)][cfg[i].key] = Absent
              THEN [@ EXCEPT !.pc = "compute"]
              ELSE [@ EXCEPT !.i = i + 1]]
        /\ UNCHANGED <<classes, lastDef, providerAttr, env, module, lastServe,
                       instances, lastInit, lastPreview, lastTemplate, page, attrs>>

\* lines 127-133, right-hand side: url + self.reverse_subpage(name)
RunCompute(r) ==
    LET cfg == GetRouteConfig(classes, PageClass)[1]
        e   == cfg[runs[r].i]
        route_args == IF e.args = << >> THEN <<e.key>> ELSE e.args
        u   == UrlFor(classes, PageClass, page.url, route_args[1])
    IN  /\ runs[r].pc = "compute"
        /\ runs' = [runs EXCEPT ![r] =
              IF u.outcome = "ok" THEN [@ EXCEPT !.pc = "store", !.value = u.value]
              ELSE [@ EXCEPT !.pc = u.outcome]]
        /\ UNCHANGED <<classes, lastDef, providerAttr, env, module, lastServe,
                       instances, lastInit, lastPreview, lastTemplate, page, attrs>>

\* line 133: setattr(self, "url_" + key, ...)
RunStore(r) ==
    LET cfg == GetRouteConfig(classes, PageClass)[1]
        key == cfg[runs[r].i].key
    IN  /\ runs[r].pc = "store"
        /\ attrs' = [attrs EXCEPT ![InstanceOf(r)][key] = Some(runs[r].value)]
        /\ runs' = [runs EXCEPT ![r] = [@ EXCEPT !.pc = "check", !.i = @ + 1,
                                                 !.value = << >>]]
        /\ UNCHANGED <<classes, lastDef, providerAttr, env, module, lastServe,
                       instances, lastInit, lastPreview, lastTemplate, page>>

-----------------------------------------------------------------------------
(* Specification of class definitions *)

\* the serve methods a class body defines itself
Bodies == { {}, {"tex"} }

ConfigDecls == {Absent} \cup { Some(cfg) : cfg \in Configs }

Init ==
    /\ classes = <<PdfViewPageMixin>>
    /\ lastDef = NoDef
    /\ providerAttr = <<Some(None)>>
    /\ env = NoEnv
    /\ module = ModuleAfterImport(NoEnv)
    /\ lastServe = NoServe
    /\ instances = << >>
    /\ lastInit = NoInit
    /\ lastPreview = NoPreview
    /\ lastTemplate = NoTemplate
    /\ page = NoPage
    /\ attrs = << >>
    /\ runs = << >>

Next ==
    \E p \in 1..Len(classes), pageBase \in BOOLEAN,
       cfg \in ConfigDecls, body \in Bodies :
        /\ pageBase => ~classes[p].isPage
        /\ DefineClass(p, pageBase, cfg, body, Absent)

Spec == Init /\ [][Next]_vars

-----------------------------------------------------------------------------
(* Specification of module import, page types and serve_pdf *)

ProviderDecls == { Absent, Some(None), Some(CustomView) }

InitProvider ==
    /\ classes = << >>
    /\ lastDef = NoDef
    /\ providerAttr = << >>
    /\ env \in Envs
    /\ module = NoModule
    /\ lastServe = NoServe
    /\ instances = << >>
    /\ lastInit = NoInit
    /\ lastPreview = NoPreview
    /\ lastTemplate = NoTemplate
    /\ page = NoPage
    /\ attrs = << >>
    /\ runs = << >>

NextProvider ==
    \/ ImportModule
    \/ \E p \in 1..Len(classes), prov \in ProviderDecls :
          /\ module.imported
          /\ DefineClass(p, TRUE, Absent, {}, prov)
    \/ \E c \in 1..Len(classes), o \in ViewOutcomes, cc \in ViewCacheControls :
          ServePdf(c, o, cc)

SpecProvider == InitProvider /\ [][NextProvider]_vars

-----------------------------------------------------------------------------
(* Specification of instance construction *)

\* the class tables that hold the mixin and one page type defined from it
OnePageTypeTables ==
    { InitSubclass(Append(<<PdfViewPageMixin>>,
                          NewClass(<<PdfViewPageMixin>>, 1, TRUE, cfg, body)), 2).tbl :
        <<cfg, body>> \in
            { x \in ConfigDecls \X Bodies :
                InitSubclass(Append(<<PdfViewPageMixin>>,
                    NewClass(<<PdfViewPageMixin>>, 1, TRUE, x[1], x[2])), 2).ok } }

InitInstances ==
    /\ classes \in OnePageTypeTables
    /\ lastDef = NoDef
    /\ providerAttr = <<Some(None), Absent>>
    /\ env = NoEnv
    /\ module = ModuleAfterImport(NoEnv)
    /\ lastServe = NoServe
    /\ instances = << >>
    /\ lastInit = NoInit
    /\ lastPreview = NoPreview
    /\ lastTemplate = NoTemplate
    /\ page = NoPage
    /\ attrs = << >>
    /\ runs = << >>

NextInstances ==
    \/ \E url \in Urls, preset \in SUBSET Keys : Construct(2, url, preset)
    \/ \E i \in 1..Len(instances) : ReInit(i)

SpecInstances == InitInstances /\ [][NextInstances]_vars

-----------------------------------------------------------------------------
(* Specification of preview requests *)

InitPreview ==
    /\ classes \in OnePageTypeTables
    /\ lastDef = NoDef
    /\ providerAttr = <<Some(None), Absent>>
    /\ env = NoEnv
    /\ module = ModuleAfterImport(NoEnv)
    /\ lastServe = NoServe
    /\ instances = << >>
    /\ lastInit = NoInit
    /\ lastPreview = NoPreview
    /\ lastTemplate = NoTemplate
    /\ page = NoPage
    /\ attrs = << >>
    /\ runs = << >>

NextPreview ==
    \E m \in ModeNames, hp \in SUBSET Keys,
       o \in HandlerOutcomes, cc \in HandlerCacheControls :
        ServePreview(2, m, hp, o, cc)

SpecPreview == InitPreview /\ [][NextPreview]_vars

-----------------------------------------------------------------------------
(* Specification of get_template calls *)

InitTemplate ==
    /\ classes = <<PdfViewPageMixin>>
    /\ lastDef = NoDef
    /\ providerAttr = <<Some(None)>>
    /\ env = NoEnv
    /\ module = ModuleAfterImport(NoEnv)
    /\ lastServe = NoServe
    /\ instances = << >>
    /\ lastInit = NoInit
    /\ lastPreview = NoPreview
    /\ lastTemplate = NoTemplate
    /\ page = NoPage
    /\ attrs = << >>
    /\ runs = << >>

NextTemplate ==
    \E tn \in {Absent} \cup { Some(t) : t \in TemplateNames }, x \in Extensions :
        GetTemplate(tn, x)

SpecTemplate == InitTemplate /\ [][NextTemplate]_vars

-----------------------------------------------------------------------------
(* Specification of concurrent runs of __init__ on instances of one page *)

InitConcurrent ==
    /\ classes \in OnePageTypeTables
    /\ lastDef = NoDef
    /\ providerAttr = <<Some(None), Absent>>
    /\ env = NoEnv
    /\ module = ModuleAfterImport(NoEnv)
    /\ lastServe = NoServe
    /\ instances = << >>
    /\ lastInit = NoInit
    /\ lastPreview = NoPreview
    /\ lastTemplate = NoTemplate
    /\ page \in [url : Urls, shared : BOOLEAN]
    /\ attrs = [r \in Runs |-> NoAttrs]
    /\ runs = [r \in Runs |-> RunStart(r)]

NextConcurrent ==
    \E r \in Runs :
        \/ RunCheck(r)
        \/ RunCompute(r)
        \/ RunStore(r)

SpecConcurrent == InitConcurrent /\ [][NextConcurrent]_vars

-----------------------------------------------------------------------------
(* Claims about class definitions *)

PageClasses(tbl) == { c \in 1..Len(tbl) : tbl[c].isPage }

IsEnabled(e) == Truthy(e.value)

IsNonNull(e) == e.value # None

\* one (key, label) per entry that passes Test, in the order of the entries
ExpectedModes(cfg, Test(_)) ==
    LET f == SelectSeq(cfg, Test)
    IN  [i \in 1..Len(f) |-> <<f[i].key, get_preview_name(f[i].key)>>]

ModesFollowConfig(tbl, Test(_)) ==
    \A c \in PageClasses(tbl) :
        tbl[c].DEFAULT_PREVIEW_MODES =
            Some(ExpectedModes(GetRouteConfig(tbl, c)[1], Test))

ListsOfExistingClassesKept ==
    \A c \in 1..Len(classes) :
        classes'[c].DEFAULT_PREVIEW_MODES = classes[c].DEFAULT_PREVIEW_MODES

\* C1 (as stated): after every class statement, each page type's own
\* DEFAULT_PREVIEW_MODES holds exactly one (key, label) per ROUTE_CONFIG entry
\* whose pattern is not None, in order, and the lists of the classes that
\* existed before are unchanged.
C1_ModesPerNonNullEntry ==
    [][ModesFollowConfig(classes', IsNonNull) /\ ListsOfExistingClassesKept]_vars

\* C1 (amended): after every class statement, each page type's own
\* DEFAULT_PREVIEW_MODES holds exactly one (key, label) per ROUTE_CONFIG entry
\* whose pattern is truthy (neither None nor the empty string), in order, and
\* the lists of the classes that existed before are unchanged.
C1_ModesPerTruthyEntry ==
    [][ModesFollowConfig(classes', IsEnabled) /\ ListsOfExistingClassesKept]_vars

\* a page type with two preview modes was subclassed by a page type that
\* redeclares ROUTE_CONFIG and ends with a different list
C1_Witness ==
    \E c \in PageClasses(classes) :
        /\ classes[c].parent \in PageClasses(classes)
        /\ classes[c].ROUTE_CONFIG # Absent
        /\ Len(classes[classes[c].parent].DEFAULT_PREVIEW_MODES[1]) = 2
        /\ Len(classes[c].DEFAULT_PREVIEW_MODES[1]) = 1
        /\ lastDef.status = "defined" /\ lastDef.cls = c

KeysWhere(cfg, Test(_)) == { cfg[i].key : i \in { j \in 1..Len(cfg) : Test(cfg[j]) } }

ModeKeys(tbl, c) ==
    LET m == GetPreviewModes(tbl, c)[1] IN { m[i][1] : i \in 1..Len(m) }

IsNull(e) == e.value = None

\* page type c redeclares ROUTE_CONFIG with key k set to None (and nowhere to a
\* pattern) while its parent page type has k enabled
DisablesKey(tbl, c, k) ==
    /\ c \in PageClasses(tbl)
    /\ tbl[c].parent \in PageClasses(tbl)
    /\ k \in KeysWhere(GetRouteConfig(tbl, tbl[c].parent)[1], IsEnabled)
    /\ tbl[c].ROUTE_CONFIG # Absent
    /\ k \in KeysWhere(tbl[c].ROUTE_CONFIG[1], IsNull)
    /\ k \notin KeysWhere(tbl[c].ROUTE_CONFIG[1], IsNonNull)

\* serve_<k> as found on class c carries a route
RouteBound(tbl, c, k) ==
    /\ GetServe(tbl, c, k) # Absent
    /\ GetServe(tbl, c, k)[1].route # Absent

\* C2: when a subclass redeclares ROUTE_CONFIG with a key its parent enabled
\* set to None, the subclass has no preview mode for the key and no route is
\* bound to its serve_<key>.
C2_DisabledKeyHasNoModeNoRoute ==
    \A c \in 1..Len(classes) : \A k \in Keys :
        DisablesKey(classes, c, k) =>
            /\ k \notin ModeKeys(classes, c)
            /\ ~RouteBound(classes, c, k)

\* C3: a class statement for a page type with an enabled key whose serve
\* method is not found on the class raises, and every enabled key of every
\* page type that exists has its serve_<key> method.
C3_MissingServeMethodFailsDefinition ==
    /\ \A c \in PageClasses(classes) :
          KeysWhere(GetRouteConfig(classes, c)[1], IsEnabled)
              \subseteq Reachable(classes, c)
    /\ ( /\ lastDef.status # "none"
         /\ lastDef.isPage
         /\ ~(KeysWhere(lastDef.config, IsEnabled) \subseteq lastDef.reachable) )
       => /\ lastDef.status = "AttributeError"
          /\ lastDef.cls = 0

\* a page type enabling "tex" without any serve_tex was rejected after another
\* page type had been defined
C3_Witness ==
    /\ lastDef.status = "AttributeError"
    /\ "tex" \in KeysWhere(lastDef.config, IsEnabled)
    /\ "tex" \notin lastDef.reachable
    /\ PageClasses(classes) # {}

-----------------------------------------------------------------------------
(* Claims about the provider *)

RECURSIVE ProviderSetOnClass(_, _, _)
\* PDF_VIEW_PROVIDER is set in the body of c or of a base other than the mixin
ProviderSetOnClass(tbl, prov, c) ==
    IF c <= 1 THEN FALSE
    ELSE prov[c] # Absent \/ ProviderSetOnClass(tbl, prov, tbl[c].parent)

NothingConfigured == ~env.weasy /\ ~env.tex /\ env.settings = Absent

ImportLeavesProviderUnset ==
    (module.imported /\ NothingConfigured) =>
        /\ module.warnings = 1
        /\ module.DEFAULT_PDF_VIEW_PROVIDER = None
        /\ providerAttr[1] = Some(None)
        /\ lastDef.status # "AttributeError"

ServedWithNothingConfigured ==
    /\ NothingConfigured
    /\ lastServe.cls # 0
    /\ ~ProviderSetOnClass(classes, providerAttr, lastServe.cls)

\* C8 (as stated): with no renderer importable and no provider configured,
\* import and page type definitions succeed with one warning and the provider
\* unset, and serve_pdf fails with a dedicated "no provider configured" error.
C8_ServePdfRaisesNoProviderConfigured ==
    /\ ImportLeavesProviderUnset
    /\ ServedWithNothingConfigured => lastServe.outcome = "NoProviderConfigured"

\* C8 (amended): with no renderer importable and no provider configured,
\* import and page type definitions succeed with one warning and the provider
\* unset, and serve_pdf returns no response: it fails with the AttributeError
\* of looking up as_view on None.
C8_ServePdfRaisesAttributeError ==
    /\ ImportLeavesProviderUnset
    /\ ServedWithNothingConfigured =>
          /\ lastServe.outcome = "AttributeError"
          /\ lastServe.cc = {}

\* serve_pdf was called on a page type defined from another page type, with
\* nothing importable and nothing configured
C8_Witness ==
    /\ ServedWithNothingConfigured
    /\ module.warnings = 1
    /\ classes[lastServe.cls].parent # 1

-----------------------------------------------------------------------------
(* Claims about the url_<key> attributes *)

\* the name of the first enabled entry for key k in cfg
FirstEnabledName(cfg, k) ==
    LET i == CHOOSE j \in 1..Len(cfg) :
                 /\ cfg[j].key = k /\ IsEnabled(cfg[j])
                 /\ \A h \in 1..(j - 1) : ~(cfg[h].key = k /\ IsEnabled(cfg[h]))
    IN  IF cfg[i].args = << >> THEN k ELSE cfg[i].args[1]

\* the page's own URL with a trailing '/' ensured; a page without a URL
\* contributes nothing
UrlWithSlash(url) ==
    IF ~Truthy(url) THEN << >>
    ELSE IF url[Len(url)] = "/" THEN url
    ELSE url \o <<"/">>

\* C6: after construction, for every enabled entry whose url_<key> was not
\* already present, url_<key> is the page URL with a trailing '/' ensured
\* followed by the reversed sub-path of the entry's route, whatever the page
\* URL is (empty and unavailable included).
C6_UrlAttributesSetForEveryBaseUrl ==
    (lastInit.ran /\ ~lastInit.rerun) =>
        /\ lastInit.outcome = "ok"
        /\ LET cfg == GetRouteConfig(classes, lastInit.cls)[1]
           IN  \A k \in KeysWhere(cfg, IsEnabled) :
                  lastInit.pre[k] = Absent =>
                      lastInit.post[k] =
                          Some(UrlWithSlash(lastInit.url) \o
                               reverse_subpage(classes, lastInit.cls,
                                               FirstEnabledName(cfg, k))[1])

\* C7: a run of the assigner leaves every url_<key> that was present as it
\* was, creates none for a key without an enabled entry, and a second run on
\* the same instance changes nothing.
C7_AssignerOnlySetsAbsentAttributes ==
    lastInit.ran =>
        LET cfg == GetRouteConfig(classes, lastInit.cls)[1]
        IN  /\ \A k \in Keys :
                  lastInit.pre[k] # Absent => lastInit.post[k] = lastInit.pre[k]
            /\ \A k \in Keys \ KeysWhere(cfg, IsEnabled) :
                  lastInit.post[k] = lastInit.pre[k]
            /\ lastInit.rerun => lastInit.post = lastInit.pre

\* the assigner ran a second time on an instance that came with a preset
\* url_html and had its url_pdf computed, of a type whose html entry is enabled
C7_Witness ==
    /\ lastInit.ran /\ lastInit.rerun
    /\ lastInit.pre["html"] = Some(PresetUrl)
    /\ lastInit.pre["pdf"] \notin {Absent, Some(PresetUrl)}
    /\ "html" \in KeysWhere(GetRouteConfig(classes, lastInit.cls)[1], IsEnabled)

-----------------------------------------------------------------------------
(* Claims about the preview dispatcher *)

\* C4: serve_preview with a mode name that is not an enabled preview mode of
\* the page type invokes no serve method, raises no AttributeError and returns
\* what the framework's serve_preview returns for the same request and mode.
C4_UnknownModeGoesToDefault ==
    (lastPreview.ran /\
     lastPreview.mode_name \notin ModeKeys(classes, lastPreview.cls)) =>
        /\ lastPreview.result.invoked = << >>
        /\ lastPreview.result.kind = "default"
        /\ lastPreview.result.mode = lastPreview.mode_name

\* a preview was requested for the key "html", which the page type lists in
\* ROUTE_CONFIG but does not enable, on an instance that has serve_preview_html
C4_Witness ==
    /\ lastPreview.ran
    /\ lastPreview.mode_name = "html"
    /\ "html" \in KeysWhere(GetRouteConfig(classes, lastPreview.cls)[1], IsNull)
    /\ "html" \notin ModeKeys(classes, lastPreview.cls)
    /\ "html" \in lastPreview.hasPreview

\* C5: serve_preview with an enabled mode m invokes exactly one method,
\* serve_preview_m if the instance has it and serve_m otherwise, which sees the
\* request already marked as a preview; the response it returns reaches the
\* caller with the private directive applied.
C5_EnabledModeInvokesOneHandler ==
    (lastPreview.ran /\
     lastPreview.mode_name \in ModeKeys(classes, lastPreview.cls)) =>
        LET r == lastPreview.result
            m == lastPreview.mode_name
        IN  /\ Len(r.invoked) = 1
            /\ r.invoked[1].handler =
                  IF m \in lastPreview.hasPreview THEN <<"serve_preview", m>>
                  ELSE <<"serve", m>>
            /\ r.invoked[1].sawPreview
            /\ lastPreview.hOutcome = "response" =>
                  /\ r.kind = "response"
                  /\ "private" \in r.cc /\ "public" \notin r.cc
                  /\ r.cc \ {"private"} = lastPreview.hCc \ {"public", "private"}
            /\ lastPreview.hOutcome = "HandlerError" => r.kind = "HandlerError"

\* an enabled mode without a serve_preview method was served by serve_<mode>,
\* whose response was marked public
C5_Witness ==
    /\ lastPreview.ran
    /\ lastPreview.mode_name \in ModeKeys(classes, lastPreview.cls)
    /\ lastPreview.mode_name \notin lastPreview.hasPreview
    /\ lastPreview.hOutcome = "response"
    /\ lastPreview.hCc = {"public"}
    /\ lastPreview.result.cc = {"private"}

-----------------------------------------------------------------------------
(* Claims about get_template *)

EndsWith(t, suffix) ==
    Len(suffix) <= Len(t) /\ SubSeq(t, Len(t) - Len(suffix) + 1, Len(t)) = suffix

\* the path with a trailing ".html" replaced by "." + extension
WithExtension(t, extension) ==
    IF EndsWith(t, DotHtml)
    THEN SubSeq(t, 1, Len(t) - Len(DotHtml)) \o <<".">> \o extension
    ELSE t

\* C9: get_template with an extension returns the configured path with its
\* trailing ".html" replaced by "." + extension and the rest unchanged;
\* without an extension it returns the configured path.
C9_OnlyTrailingHtmlReplaced ==
    (lastTemplate.ran /\ lastTemplate.template_name # Absent) =>
        /\ lastTemplate.result.kind = "ok"
        /\ lastTemplate.result.value =
              IF Truthy(lastTemplate.extension)
              THEN WithExtension(lastTemplate.template_name[1], lastTemplate.extension)
              ELSE lastTemplate.template_name[1]

-----------------------------------------------------------------------------
(* Claims about concurrent runs *)

AllRunsEnded == \A r \in Runs : runs[r].pc \notin {"check", "compute", "store"}

\* C10: under every interleaving, each run of the assigner on a page type
\* that enables "pdf" ends with url_pdf set on its instance, and the url_pdf
\* values of the instances are identical.
C10_ConcurrentRunsAgreeOnUrlPdf ==
    (AllRunsEnded /\
     "pdf" \in KeysWhere(GetRouteConfig(classes, PageClass)[1], IsEnabled)) =>
        /\ \A r \in Runs :
              /\ runs[r].pc = "done"
              /\ attrs[InstanceOf(r)]["pdf"] # Absent
        /\ \A r1, r2 \in Runs :
              attrs[InstanceOf(r1)]["pdf"] = attrs[InstanceOf(r2)]["pdf"]

=============================================================================
